---- MODULE Spec2Model ----
(***************************************************************************)
(* Model of the bulk dispatch engine of email-buddy: the edge function     *)
(* supabase/functions/send-bulk-emails/index.ts working on the campaigns   *)
(* rows, their campaign_recipients rows and one SMTP account, and of the   *)
(* pages that write to the same tables: the settings page and the wizard.  *)
(*                                                                         *)
(* Every `await` of the handler is one action: the store (PostgREST) and   *)
(* the SMTP server are shared between invocations, so concurrent           *)
(* invocations interleave exactly at these points.  supabase-js does not   *)
(* throw on a failed request, it returns {data: null, error}; the handler  *)
(* ignores the result of every update, so a failed write is a silent       *)
(* no-op (parameter ok = FALSE of the write actions).                      *)
(***************************************************************************)
EXTENDS Integers, Sequences, FiniteSets, TLC

\* ---------------------------------------------------------------- bounds
MaxRows == 2            \* recipient rows of the campaign, concurrent runs
MaxInvocations == 3     \* dispatch invocations, concurrent runs
MaxPending == 120       \* recipient rows of the campaign, sequential runs
MaxSeqInvocations == 4  \* dispatch invocations, sequential runs
MaxTemplateLen == 3     \* pieces of a template
MaxSubjectLen == 61     \* characters of the longest subject
MaxNewContacts == 1     \* contacts added while the wizard is open
MaxRuns == 2            \* runs of handleCreateCampaign on one wizard page
MaxRecipientCount == 501 \* contacts selected in the wizard
MaxSettingsRows == 2    \* rows of the smtp_settings table

\* ------------------------------------------------------ program constants
BatchLimit == 50        \* .limit(50)
Null == 0               \* SQL NULL of a TIMESTAMPTZ / TEXT column
Undefined == -1         \* a key that the JSON response does not have

Procs == {1, 2}         \* slots in which an invocation of the handler runs
Pages == {1, 2}         \* browser tabs in which the settings page is open

VARIABLES
  campaigns,   \* the rows of the campaigns table, by id
  rows,        \* the rows of the campaign_recipients table, by id
  smtp,        \* what the SMTP server answers to a message for each row
  sends,       \* how often client.send() was called for each row
  marks,       \* the invocations that wrote sent/failed to each row
  ninv,        \* number of invocations started so far (the clock)
  proc,        \* the handler's locals, per slot
  contacts,         \* the ids of the rows of the contacts table
  smtp_settings,    \* the rows of the smtp_settings table, in scan order
  email_templates,  \* whether the template of the campaigns is in its table
  session,          \* whether the SMTP server accepts the connection and login
  wizard,           \* the campaign wizard: its state and its runs of handleCreateCampaign
  settingsPage,     \* the open settings pages: position and locals of handleSave
  args,        \* arguments of the pure function under study
  result       \* its result

\* what the handler only reads, and the client that creates the campaign
setup == <<contacts, smtp_settings, email_templates, session, wizard, settingsPage>>

pure == <<args, result>>

vars == <<campaigns, rows, smtp, sends, marks, ninv, proc, setup, pure>>

CampaignStatus == {"draft", "sending", "paused", "completed", "failed"}
RecipientStatus == {"pending", "sent", "failed", "opened", "clicked", "bounced"}
SmtpOutcome == {"ok", "rejected", "thrown"}

\* the id of the k-th campaign that was inserted
CampaignName(k) == "c" \o ToString(k)

\* the id of the first campaign
CampaignId == CampaignName(1)

\* message of the SyntaxError that req.json() throws for a body that is not
\* JSON. The engine words it after the place where the text stops being
\* JSON: the empty text, a text that starts with a letter, and an object
\* that ends after a property value are the three texts of RequestBodies
JsonError(text) ==
  IF text = "" THEN "Unexpected end of JSON input"
  ELSE IF text = "not json"
  THEN "Unexpected token 'o', \"not json\" is not valid JSON"
  ELSE "Expected ',' or '}' after property value in JSON at position "
       \o ToString(Len(text))

\* message of the TypeError of destructuring the body null
DestructureText ==
  "Cannot destructure property 'campaign_id' of '(intermediate value)' as it is null."

\* text of the error of a send on a session that could not be opened
RefusedText == "connection refused"

\* text of the TypeError of template.subject when the template is null
NoTemplateText == "Cannot read properties of null (reading 'subject')"

\* text of the transport error of a rejected message
RejectedText == "550 mailbox unavailable"

\* err instanceof Error ? err.message : "Unknown error"
errorMsg(outcome) ==
  IF outcome = "rejected" THEN RejectedText
  ELSE IF outcome = "refused" THEN RefusedText
  ELSE IF outcome = "notemplate" THEN NoTemplateText
  ELSE "Unknown error"

NoResponse ==
  [status |-> 0, success |-> FALSE, sent |-> Undefined, failed |-> Undefined,
   remaining |-> Undefined, message |-> "", error |-> ""]

ErrorResponse(code, text) ==
  [NoResponse EXCEPT !.status = code, !.error = text]

\* the part of the fetched campaign row that the handler or a claim looks at
NoCampaign == [status |-> "", started_at |-> Null]

NoCounts == [sent_count |-> 0, failed_count |-> 0]

Idle ==
  [pc |-> "idle", inv |-> 0, campaign_id |-> "", smtp_password |-> "",
   campaign |-> NoCampaign, template |-> FALSE, recipients |-> <<>>,
   i |-> 0, sentCount |-> 0, failedCount |-> 0, err |-> "",
   currentCampaign |-> NoCounts, countsError |-> FALSE, clientOpen |-> FALSE,
   response |-> NoResponse]

\* the recipient row of contact k in campaign c
NewRow(c, k) ==
  [campaign_id |-> c, contact_id |-> k, status |-> "pending", sent_at |-> Null,
   error_message |-> ""]

\* the wizard page is not open
Closed == [recipientCount |-> 0, smtpPassword |-> "", scheduledTime |-> "now",
           creating |-> FALSE, mounted |-> FALSE, runs |-> <<>>]

\* a settings page on which handleSave is not running
NoSave == [pc |-> "idle", settings |-> <<>>, existing |-> 0]

\* the campaigns table without a row
NoCampaigns == [c \in {} |-> 0]

NewCampaign(n) ==
  [status |-> "draft", total_recipients |-> n, sent_count |-> 0,
   failed_count |-> 0, started_at |-> Null, completed_at |-> Null]

\* ------------------------------------------------------------- helpers
\* the campaigns row of the first campaign
campaign == campaigns[CampaignId]

\* the ids of the rows of campaign c
RowsOf(c) == {r \in DOMAIN rows : rows[r].campaign_id = c}

\* the campaign_recipients rows of campaign c
CampaignRows(c) == [r \in RowsOf(c) |-> rows[r]]

\* the rows of campaign c that are pending
PendingOf(c) == {r \in RowsOf(c) : rows[r].status = "pending"}

\* the ids of the rows in the table: a row leaves it when its contact is deleted
RowIds == DOMAIN rows

\* the number of rows in the table
RowCount == Cardinality(RowIds)

\* the highest id of a row of rs
MaxId(rs) ==
  IF DOMAIN rs = {} THEN 0
  ELSE CHOOSE m \in DOMAIN rs : \A q \in DOMAIN rs : q <= m

\* the pending rows of the first campaign
PendingIds == PendingOf(CampaignId)

\* the first k pending rows at or after position r, in scan order
TakeFrom(r, k, rs) ==
  LET pending == SelectSeq([q \in 1..MaxId(rs) |-> q],
                           LAMBDA q : /\ q >= r
                                      /\ q \in DOMAIN rs
                                      /\ rs[q].status = "pending")
  IN  SubSeq(pending, 1, IF k < Len(pending) THEN k ELSE Len(pending))

\* the select without its limit
SelectPendingUnlimited(rs) == TakeFrom(1, MaxId(rs), rs)

\* .eq("status", "pending").limit(50): the query has no ORDER BY; rows are
\* numbered by their position in the scan, so the first 50 pending ones come back
SelectPending(rs) == TakeFrom(1, BatchLimit, rs)

\* new Date().toISOString(): the clock is the number of the invocation
Now(p) == proc[p].inv

\* finish the invocation with a response; the other locals die with it
Respond(p, resp) ==
  proc' = [proc EXCEPT ![p] = [Idle EXCEPT !.pc = "done", !.inv = proc[p].inv,
                                           !.campaign_id = proc[p].campaign_id,
                                           !.campaign = proc[p].campaign,
                                           !.response = resp]]

\* after a recipient: the next one, or leave the loop
Advance(l) ==
  IF l.i < Len(l.recipients)
  THEN [l EXCEPT !.pc = "send", !.i = l.i + 1, !.err = ""]
  ELSE [l EXCEPT !.pc = "close", !.err = ""]

\* ------------------------------------------------------------- the handler
\* a request body that is not JSON
NotJson(text) == [json |-> FALSE, text |-> text, value |-> <<>>]

\* the request body null
JsonNull == [json |-> TRUE, text |-> "null", value |-> <<>>]

\* JSON.stringify({campaign_id, smtp_password}): a missing key is ""
JsonBody(campaign_id, smtp_password) ==
  [json |-> TRUE, text |-> "",
   value |-> <<[campaign_id |-> campaign_id, smtp_password |-> smtp_password]>>]

\* the body of a request for the first campaign
Body(smtp_password) == JsonBody(CampaignId, smtp_password)

\* a request arrives: req.json(), the destructuring of the body and the
\* validation of its two fields
Request(p, body) ==
  /\ proc[p].pc \in {"idle", "done"}
  /\ ninv' = ninv + 1
  /\ proc' = [proc EXCEPT ![p] =
       IF ~body.json
       THEN [Idle EXCEPT !.pc = "done", !.inv = ninv + 1,
                         !.response = ErrorResponse(500, JsonError(body.text))]
       ELSE IF body.value = <<>>
       THEN [Idle EXCEPT !.pc = "done", !.inv = ninv + 1,
                         !.response = ErrorResponse(500, DestructureText)]
       ELSE IF body.value[1].campaign_id = "" \/ body.value[1].smtp_password = ""
       THEN [Idle EXCEPT !.pc = "done", !.inv = ninv + 1,
               !.response = ErrorResponse(400, "Missing campaign_id or smtp_password")]
       ELSE [Idle EXCEPT !.pc = "campaign", !.inv = ninv + 1,
                         !.campaign_id = body.value[1].campaign_id,
                         !.smtp_password = body.value[1].smtp_password]]

\* an invocation of the edge function by any client
Invoke(p, body) ==
  /\ Request(p, body)
  /\ UNCHANGED <<campaigns, rows, smtp, setup, pure, sends, marks>>

\* fetch the campaign with its template: the join gives null for the
\* template when template_id is NULL
ReadCampaign(p, ok) ==
  /\ proc[p].pc = "campaign"
  /\ IF ~ok \/ proc[p].campaign_id \notin DOMAIN campaigns
     THEN Respond(p, ErrorResponse(404, "Campaign not found"))
     ELSE LET row == campaigns[proc[p].campaign_id] IN
          proc' = [proc EXCEPT ![p].pc = "settings",
                               ![p].campaign = [status |-> row.status,
                                                started_at |-> row.started_at],
                               ![p].template = email_templates]
  /\ UNCHANGED <<campaigns, rows, smtp, setup, pure, sends, marks, ninv>>

\* fetch the SMTP settings: .limit(1).single() is an error without a row
ReadSettings(p, ok) ==
  /\ proc[p].pc = "settings"
  /\ IF ~ok \/ Len(smtp_settings) = 0
     THEN Respond(p, ErrorResponse(400, "SMTP settings not configured"))
     ELSE proc' = [proc EXCEPT ![p].pc = "select"]
  /\ UNCHANGED <<campaigns, rows, smtp, setup, pure, sends, marks, ninv>>

\* fetch the pending recipients, at most BatchLimit of them
FetchRecipients(p, ok) ==
  /\ proc[p].pc = "select"
  /\ IF ~ok
     THEN Respond(p, ErrorResponse(500, "Failed to fetch recipients"))
     ELSE LET recipients == SelectPending(CampaignRows(proc[p].campaign_id)) IN
          proc' = [proc EXCEPT ![p].recipients = recipients,
                               ![p].pc = IF Len(recipients) = 0 THEN "complete"
                                                                ELSE "sending"]
  /\ UNCHANGED <<campaigns, rows, smtp, setup, pure, sends, marks, ninv>>

\* the no-pending branch answering without the update of the campaign
MarkCompletedSilent(p, ok) ==
  /\ proc[p].pc = "complete"
  /\ Respond(p, [NoResponse EXCEPT !.status = 200, !.success = TRUE,
                                   !.message = "No pending recipients", !.sent = 0])
  /\ UNCHANGED <<campaigns, rows, smtp, setup, pure, sends, marks, ninv>>

\* no pending recipients: mark the campaign completed and answer
MarkCompleted(p, ok) ==
  /\ proc[p].pc = "complete"
  /\ campaigns' = IF ok THEN [campaigns EXCEPT
                                ![proc[p].campaign_id].status = "completed",
                                ![proc[p].campaign_id].completed_at = Now(p)]
                        ELSE campaigns
  /\ Respond(p, [NoResponse EXCEPT !.status = 200, !.success = TRUE,
                                   !.message = "No pending recipients", !.sent = 0])
  /\ UNCHANGED <<rows, smtp, setup, pure, sends, marks, ninv>>

\* mark the campaign sending, create the SMTP client, reset the tallies
MarkSending(p, ok) ==
  /\ proc[p].pc = "sending"
  /\ campaigns' = IF ok THEN [campaigns EXCEPT
                                ![proc[p].campaign_id].status = "sending",
                                ![proc[p].campaign_id].started_at =
                                   IF proc[p].campaign.started_at # Null
                                   THEN proc[p].campaign.started_at
                                   ELSE Now(p)]
                        ELSE campaigns
  /\ proc' = [proc EXCEPT ![p].pc = "send", ![p].i = 1, ![p].clientOpen = TRUE,
                          ![p].sentCount = 0, ![p].failedCount = 0]
  /\ UNCHANGED <<rows, smtp, setup, pure, sends, marks, ninv>>

\* what the try block of the loop does for row r: template.subject throws on
\* a null template before anything is sent; client.send() awaits the session
\* that the constructor started, and throws if it could not be opened
SendOutcome(p, r) ==
  IF ~proc[p].template THEN "notemplate"
  ELSE IF ~session THEN "refused"
  ELSE smtp[r]

\* render and client.send() for the current recipient
Send(p) ==
  /\ proc[p].pc = "send"
  /\ LET r == proc[p].recipients[proc[p].i] IN
       /\ sends' = IF proc[p].template THEN [sends EXCEPT ![r] = @ + 1] ELSE sends
       /\ proc' = IF SendOutcome(p, r) = "ok"
                  THEN [proc EXCEPT ![p].pc = "markSent"]
                  ELSE [proc EXCEPT ![p].pc = "markFailed",
                                    ![p].err = errorMsg(SendOutcome(p, r))]
  /\ UNCHANGED <<campaigns, rows, smtp, setup, pure, marks, ninv>>

\* the send returned: update the row to sent, count it, pace
MarkSent(p, ok) ==
  /\ proc[p].pc = "markSent"
  /\ LET r == proc[p].recipients[proc[p].i] IN
       /\ rows' = IF ok /\ r \in RowIds
                  THEN [rows EXCEPT ![r].status = "sent", ![r].sent_at = Now(p)]
                  ELSE rows
       /\ marks' = IF ok /\ r \in RowIds
                   THEN [marks EXCEPT ![r] = @ \cup {proc[p].inv}]
                   ELSE marks
  /\ proc' = [proc EXCEPT ![p] = Advance([@ EXCEPT !.sentCount = @ + 1])]
  /\ UNCHANGED <<campaigns, smtp, setup, pure, sends, ninv>>

\* the send threw and the error ends the loop instead of the iteration
MarkFailedAbort(p, ok) ==
  /\ proc[p].pc = "markFailed"
  /\ LET r == proc[p].recipients[proc[p].i] IN
       /\ rows' = IF ok /\ r \in RowIds
                  THEN [rows EXCEPT ![r].status = "failed",
                                    ![r].error_message = proc[p].err]
                  ELSE rows
       /\ marks' = IF ok /\ r \in RowIds
                   THEN [marks EXCEPT ![r] = @ \cup {proc[p].inv}]
                   ELSE marks
  /\ proc' = [proc EXCEPT ![p].failedCount = @ + 1, ![p].pc = "close", ![p].err = ""]
  /\ UNCHANGED <<campaigns, smtp, setup, pure, sends, ninv>>

\* the send threw: update the row to failed with the error text, count it
MarkFailed(p, ok) ==
  /\ proc[p].pc = "markFailed"
  /\ LET r == proc[p].recipients[proc[p].i] IN
       /\ rows' = IF ok /\ r \in RowIds
                  THEN [rows EXCEPT ![r].status = "failed",
                                    ![r].error_message = proc[p].err]
                  ELSE rows
       /\ marks' = IF ok /\ r \in RowIds
                   THEN [marks EXCEPT ![r] = @ \cup {proc[p].inv}]
                   ELSE marks
  /\ proc' = [proc EXCEPT ![p] = Advance([@ EXCEPT !.failedCount = @ + 1])]
  /\ UNCHANGED <<campaigns, smtp, setup, pure, sends, ninv>>

\* the loop is left without the call of client.close()
CloseSkipped(p) ==
  /\ proc[p].pc = "close"
  /\ proc' = [proc EXCEPT ![p].pc = "readCounts"]
  /\ UNCHANGED <<campaigns, rows, smtp, setup, pure, sends, marks, ninv>>

\* client.close()
Close(p) ==
  /\ proc[p].pc = "close"
  /\ proc' = [proc EXCEPT ![p].pc = "readCounts", ![p].clientOpen = FALSE]
  /\ UNCHANGED <<campaigns, rows, smtp, setup, pure, sends, marks, ninv>>

\* read the campaign's counters; a failed read gives null, used as 0.
\* countsError is the error of the read or of the write after it, which the
\* handler does not look at
ReadCounts(p, ok) ==
  /\ proc[p].pc = "readCounts"
  /\ proc' = [proc EXCEPT ![p].pc = "writeCounts",
                          ![p].countsError = ~ok,
                          ![p].currentCampaign =
                             IF ok
                             THEN [sent_count |->
                                     campaigns[proc[p].campaign_id].sent_count,
                                   failed_count |->
                                     campaigns[proc[p].campaign_id].failed_count]
                                   ELSE NoCounts]
  /\ UNCHANGED <<campaigns, rows, smtp, setup, pure, sends, marks, ninv>>

\* write the counters read before plus this batch's tallies
WriteCounts(p, ok) ==
  /\ proc[p].pc = "writeCounts"
  /\ campaigns' = IF ok THEN [campaigns EXCEPT
                     ![proc[p].campaign_id].sent_count =
                        proc[p].currentCampaign.sent_count + proc[p].sentCount,
                     ![proc[p].campaign_id].failed_count =
                        proc[p].currentCampaign.failed_count + proc[p].failedCount]
                        ELSE campaigns
  /\ proc' = [proc EXCEPT ![p].pc = "count", ![p].countsError = @ \/ ~ok]
  /\ UNCHANGED <<rows, smtp, setup, pure, sends, marks, ninv>>

\* count the rows still pending and answer
CountPending(p, ok) ==
  /\ proc[p].pc = "count"
  /\ LET count == IF ok THEN Cardinality(PendingOf(proc[p].campaign_id)) ELSE 0 IN
       Respond(p, [NoResponse EXCEPT !.status = 200, !.success = TRUE,
                     !.sent = proc[p].sentCount, !.failed = proc[p].failedCount,
                     !.remaining = count,
                     !.message = IF count > 0
                                 THEN "Batch completed, more recipients pending"
                                 ELSE "All emails sent"])
  /\ UNCHANGED <<campaigns, rows, smtp, setup, pure, sends, marks, ninv>>

\* ------------------------------------------------------- template renderer
NullField == "<null>"    \* a contact field that is SQL NULL, not a string

\* value || ""
OrEmpty(value) == IF value = NullField THEN "" ELSE value

\* the character at position k of a string
CharAt(str, k) == SubSeq(str, k, k)

\* str.startsWith(word, k - 1)
MatchesAt(str, k, word) ==
  /\ k + Len(word) - 1 <= Len(str)
  /\ SubSeq(str, k, k + Len(word) - 1) = word

\* str.includes(word)
Includes(str, word) ==
  \/ word = ""
  \/ \E k \in 1..(Len(str) - Len(word) + 1) : MatchesAt(str, k, word)

RECURSIVE ExpandFrom(_, _, _, _, _)
\* the replacement string of String.replace from position k on: $$ is a
\* dollar, $& the match, $' the text after it. The pattern for the text
\* before the match needs a grave accent, which no input of the model holds.
ExpandFrom(replacement, k, matched, before, after) ==
  IF k > Len(replacement) THEN ""
  ELSE IF MatchesAt(replacement, k, "$$")
       THEN "$" \o ExpandFrom(replacement, k + 2, matched, before, after)
  ELSE IF MatchesAt(replacement, k, "$&")
       THEN matched \o ExpandFrom(replacement, k + 2, matched, before, after)
  ELSE IF MatchesAt(replacement, k, "$'")
       THEN after \o ExpandFrom(replacement, k + 2, matched, before, after)
  ELSE CharAt(replacement, k) \o ExpandFrom(replacement, k + 1, matched, before, after)

RECURSIVE ReplaceFrom(_, _, _, _)
\* the global replace from position k on: matches are found left to right in
\* the original text, and the text put in is not scanned again
ReplaceFrom(text, k, token, replacement) ==
  IF k > Len(text) THEN ""
  ELSE IF MatchesAt(text, k, token)
       THEN ExpandFrom(replacement, 1, token, SubSeq(text, 1, k - 1),
                       SubSeq(text, k + Len(token), Len(text)))
            \o ReplaceFrom(text, k + Len(token), token, replacement)
  ELSE CharAt(text, k) \o ReplaceFrom(text, k + 1, token, replacement)

\* text.replace(/token/g, replacement) for a token without regex operators
ReplaceAll(text, token, replacement) == ReplaceFrom(text, 1, token, replacement)

replacePlaceholders(text, contact) ==
  ReplaceAll(
    ReplaceAll(
      ReplaceAll(
        ReplaceAll(text, "{{first_name}}", OrEmpty(contact.first_name)),
        "{{last_name}}", OrEmpty(contact.last_name)),
      "{{email}}", OrEmpty(contact.email)),
    "{{company}}", OrEmpty(contact.company))

\* one call of replacePlaceholders
Render ==
  /\ result = <<>>
  /\ "text" \in DOMAIN args
  /\ result' = <<replacePlaceholders(args.text, args.contact)>>
  /\ UNCHANGED <<campaigns, rows, smtp, sends, marks, ninv, proc, setup, args>>

\* ------------------------------------------------------ deliverability check
SubjectLimit == 60         \* template.subject.length > 60
SlowSendThreshold == 500   \* recipientCount > 500

spamWords == <<"free", "winner", "click here", "act now", "limited time", "urgent">>

\* the letters with a lower case form, in Basic Latin and Latin-1, the
\* alphabet of the model's templates
UpperCase == "ABCDEFGHIJKLMNOPQRSTUVWXYZÀÁÂÃÄÅÆÇÈÉÊËÌÍÎÏÐÑÒÓÔÕÖØÙÚÛÜÝÞ"
LowerCase == "abcdefghijklmnopqrstuvwxyzàáâãäåæçèéêëìíîïðñòóôõöøùúûüýþ"

\* one character of String.prototype.toLowerCase
LowerChar(c) ==
  IF \E k \in 1..Len(UpperCase) : CharAt(UpperCase, k) = c
  THEN CharAt(LowerCase, CHOOSE k \in 1..Len(UpperCase) : CharAt(UpperCase, k) = c)
  ELSE c

RECURSIVE LowerBetween(_, _, _)
\* the characters i to j of str in lower case, by halves
LowerBetween(str, i, j) ==
  IF i > j THEN ""
  ELSE IF i = j THEN LowerChar(CharAt(str, i))
  ELSE LET m == (i + j) \div 2 IN
       LowerBetween(str, i, m) \o LowerBetween(str, m + 1, j)

toLowerCase(str) == LowerBetween(str, 1, Len(str))

Warning(message) == [type |-> "warning", message |-> message]

Error(message) == [type |-> "error", message |-> message]

RECURSIVE SpamIssuesFrom(_, _)
\* spamWords.forEach from word k on
SpamIssuesFrom(content, k) ==
  IF k > Len(spamWords) THEN <<>>
  ELSE (IF Includes(content, spamWords[k])
        THEN <<Warning("Template contains potential spam trigger word: \""
                       \o spamWords[k] \o "\"")>>
        ELSE <<>>)
       \o SpamIssuesFrom(content, k + 1)

\* the issues of the selected template
TemplateIssues(t) ==
  SpamIssuesFrom(toLowerCase(t.subject \o " " \o t.html_content), 1)
  \o (IF ~Includes(t.html_content, "unsubscribe")
      THEN <<Warning("Consider adding an unsubscribe link for compliance")>>
      ELSE <<>>)
  \o (IF Len(t.subject) > SubjectLimit
      THEN <<Warning("Subject line is longer than 60 characters (may be truncated)")>>
      ELSE <<>>)

CountIssues(recipientCount) ==
  IF recipientCount > SlowSendThreshold
  THEN <<Warning("Sending to " \o ToString(recipientCount)
                 \o " recipients. Consider using slow-send settings.")>>
  ELSE <<>>

PasswordIssues(smtpPassword) ==
  IF smtpPassword = ""
  THEN <<Error("SMTP password is required to send emails")>>
  ELSE <<>>

\* issues.filter(i => i.type === 'error').length === 0
NoErrors(issues) == \A k \in 1..Len(issues) : issues[k].type # "error"

\* the check with the password rule inside the template branch
runDeliverabilityCheckNested(template, recipientCount, smtpPassword) ==
  LET issues == (IF Len(template) > 0
                 THEN TemplateIssues(template[1]) \o PasswordIssues(smtpPassword)
                 ELSE <<>>)
                \o CountIssues(recipientCount)
  IN  [issues |-> issues, ok |-> NoErrors(issues)]

\* template is the result of templates.find: empty when there is none
runDeliverabilityCheck(template, recipientCount, smtpPassword) ==
  LET issues == (IF Len(template) > 0 THEN TemplateIssues(template[1]) ELSE <<>>)
                \o CountIssues(recipientCount)
                \o PasswordIssues(smtpPassword)
  IN  [issues |-> issues, ok |-> NoErrors(issues)]

\* one run of the deliverability check of the wizard
Check ==
  /\ result = <<>>
  /\ "template" \in DOMAIN args
  /\ result' = <<runDeliverabilityCheck(args.template, args.recipientCount,
                                        args.smtpPassword)>>
  /\ UNCHANGED <<campaigns, rows, smtp, sends, marks, ninv, proc, setup, args>>

\* ------------------------------------------------------------ environment
\* the operator pauses a campaign that is being sent
OperatorPause ==
  /\ campaign.status = "sending"
  /\ campaigns' = [campaigns EXCEPT ![CampaignId].status = "paused"]
  /\ UNCHANGED <<rows, smtp, setup, pure, sends, marks, ninv, proc>>

\* the tracking collaborator records that a delivered message was opened
TrackerOpen(r) ==
  /\ rows[r].status = "sent"
  /\ rows' = [rows EXCEPT ![r].status = "opened"]
  /\ UNCHANGED <<campaigns, smtp, setup, pure, sends, marks, ninv, proc>>

\* Contacts: handleDeleteContact deletes contact k, and ON DELETE CASCADE of
\* campaign_recipients.contact_id takes its recipient rows with it
DeleteContact(k) ==
  /\ k \in contacts
  /\ contacts' = contacts \ {k}
  /\ rows' = [q \in {r \in RowIds : rows[r].contact_id # k} |-> rows[q]]
  /\ UNCHANGED <<campaigns, smtp, sends, marks, ninv, proc, smtp_settings,
                 email_templates, session, wizard, settingsPage, pure>>

\* the ids of the contacts added after the wizard loaded its contacts
NewContacts == (MaxRows + 1)..(MaxRows + MaxNewContacts)

\* Contacts: handleAddContact inserts a contact. Its id is new, so that no
\* recipient row and no contact of the open wizard, which loaded its
\* contacts when it was opened, has it
AddContact(k, ok) ==
  /\ k \in NewContacts \ contacts
  /\ \A j \in NewContacts \ contacts : k <= j
  /\ contacts' = IF ok THEN contacts \cup {k} ELSE contacts
  /\ UNCHANGED <<campaigns, rows, smtp, sends, marks, ninv, proc, smtp_settings,
                 email_templates, session, wizard, settingsPage, pure>>

\* Templates: handleDelete deletes the campaign's template, and ON DELETE SET
\* NULL sets campaigns.template_id to NULL
DeleteTemplate ==
  /\ email_templates
  /\ email_templates' = FALSE
  /\ UNCHANGED <<campaigns, contacts, rows, smtp, sends, marks, ninv, proc,
                 smtp_settings, session, wizard, settingsPage, pure>>

\* ------------------------------------------------------------ specifications
Passwords == {"", "secret"}

\* what the server answers per row: every script for a short list, three
\* periodic scripts for a long one
SmtpScripts(n) ==
  IF n <= 3 THEN [1..n -> SmtpOutcome]
  ELSE { [r \in 1..n |-> "ok"],
         [r \in 1..n |-> IF r % 3 = 0 THEN "rejected" ELSE "ok"],
         [r \in 1..n |-> IF r % 3 = 0 THEN "thrown"
                         ELSE IF r % 3 = 1 THEN "rejected" ELSE "ok"] }

\* the smtp_settings row of the account
Configured ==
  [host |-> "mail.example.com", port |-> 587, username |-> "mailer",
   from_email |-> "news@example.com", from_name |-> "News", use_tls |-> TRUE]

\* no pure function is under study
NoCall ==
  /\ args = <<>>
  /\ result = <<>>

\* the campaign, its rows and the handler slots after handleCreateCampaign
\* created a campaign with n recipients
CreatedRows(n) ==
  /\ campaigns = [c \in {CampaignId} |-> NewCampaign(n)]
  /\ contacts = 1..n
  /\ rows = [r \in 1..n |-> NewRow(CampaignId, r)]
  /\ smtp \in SmtpScripts(n)
  /\ sends = [r \in 1..n |-> 0]
  /\ marks = [r \in 1..n |-> {}]
  /\ ninv = 0
  /\ proc = [p \in Procs |-> Idle]
  /\ wizard = Closed
  /\ settingsPage = [s \in Pages |-> NoSave]
  /\ NoCall

\* the state after handleCreateCampaign created a campaign with n recipients,
\* with the account configured, its template in place and the server up
Created(n) ==
  /\ smtp_settings = <<Configured>>
  /\ email_templates = TRUE
  /\ session = TRUE
  /\ CreatedRows(n)

\* ---------------------------------------- settings page and campaign wizard
\* the passwords typed into the settings form and the wizard
Secrets == Passwords \cup {"hunter2"}

\* the state of the settings form
Forms ==
  [host : {"mail.example.com"}, port : {587}, username : {"mailer"},
   password : {"hunter2"}, from_email : {"news@example.com"},
   from_name : {"", "News"}, use_tls : {TRUE}]

\* the forms filled in on settings page s: each page has its own from_name
FormsOf(s) == {f \in Forms : (f.from_name = "News") <=> (s = 1)}

\* the payload of handleSave: the form without its password
Payload(settings) ==
  [host |-> settings.host, port |-> settings.port, username |-> settings.username,
   from_email |-> settings.from_email, from_name |-> settings.from_name,
   use_tls |-> settings.use_tls]

\* handleSave up to its select: existing is the position of the first row,
\* 0 for null, which is also what a failed select leaves
HandleSave(s, settings, ok) ==
  /\ settingsPage[s].pc = "idle"
  /\ settingsPage' = [settingsPage EXCEPT ![s] =
       [pc |-> "write", settings |-> <<settings>>,
        existing |-> IF ok /\ Len(smtp_settings) > 0 THEN 1 ELSE 0]]
  /\ UNCHANGED <<campaigns, rows, smtp, sends, marks, ninv, proc,
                 contacts, smtp_settings, email_templates, session, wizard, pure>>

\* the write of handleSave sending the whole form
SaveSettingsForm(s, ok) ==
  /\ settingsPage[s].pc = "write"
  /\ LET payload == settingsPage[s].settings[1]
         existing == settingsPage[s].existing
     IN  smtp_settings' = IF ~ok THEN smtp_settings
                          ELSE IF existing # 0
                          THEN [smtp_settings EXCEPT ![existing] = payload]
                          ELSE Append(smtp_settings, payload)
  /\ settingsPage' = [settingsPage EXCEPT ![s] = NoSave]
  /\ UNCHANGED <<campaigns, rows, smtp, sends, marks, ninv, proc,
                 contacts, email_templates, session, wizard, pure>>

\* the write of handleSave: update the row that the select found, or insert
\* a row; a failed write changes nothing and is reported in a toast
SaveSettings(s, ok) ==
  /\ settingsPage[s].pc = "write"
  /\ LET payload == Payload(settingsPage[s].settings[1])
         existing == settingsPage[s].existing
     IN  smtp_settings' = IF ~ok THEN smtp_settings
                          ELSE IF existing # 0
                          THEN [smtp_settings EXCEPT ![existing] = payload]
                          ELSE Append(smtp_settings, payload)
  /\ settingsPage' = [settingsPage EXCEPT ![s] = NoSave]
  /\ UNCHANGED <<campaigns, rows, smtp, sends, marks, ninv, proc,
                 contacts, email_templates, session, wizard, pure>>

\* the saves that are about to insert a row
InsertsPending ==
  Cardinality({s \in Pages : settingsPage[s].pc = "write"
                             /\ settingsPage[s].existing = 0})

\* the template selected in the wizard
SelectedTemplate == <<[subject |-> "Hello", html_content |-> "<p>Hello</p>"]>>

\* the status of the campaign row that the wizard inserts
InsertStatus(scheduledTime) ==
  IF scheduledTime = "scheduled" THEN "scheduled" ELSE "draft"

\* canProceed on the review step of the wizard
canProceed == TRUE

\* a click on Create Campaign, which creating disables: a run of
\* handleCreateCampaign starts and waits for the timer of its check
ClickCreate ==
  /\ wizard.mounted
  /\ ~wizard.creating
  /\ canProceed
  /\ wizard' = [wizard EXCEPT !.runs = Append(@, [pc |-> "check", campaign_id |-> ""])]
  /\ UNCHANGED <<campaigns, contacts, rows, smtp, sends, marks, ninv, proc,
                 smtp_settings, email_templates, session, settingsPage, pure>>

\* the timer of the check of run k fires, after those of the earlier runs:
\* the run returns when the check has an error, else it sets creating
CheckDone(k) ==
  /\ k \in DOMAIN wizard.runs
  /\ wizard.runs[k].pc = "check"
  /\ \A j \in 1..(k - 1) : wizard.runs[j].pc # "check"
  /\ LET canSend == runDeliverabilityCheck(SelectedTemplate, wizard.recipientCount,
                                           wizard.smtpPassword).ok
     IN  wizard' = IF canSend
                   THEN [wizard EXCEPT !.runs[k].pc = "insert", !.creating = TRUE]
                   ELSE [wizard EXCEPT !.runs[k].pc = "blocked"]
  /\ UNCHANGED <<campaigns, contacts, rows, smtp, sends, marks, ninv, proc,
                 smtp_settings, email_templates, session, settingsPage, pure>>

\* the insert of the campaign row of run k: the run throws when the insert
\* fails, as it does for a status that the CHECK constraint does not accept
\* and for a template_id whose template was deleted
CreateCampaign(k, ok) ==
  /\ k \in DOMAIN wizard.runs
  /\ wizard.runs[k].pc = "insert"
  /\ LET status == InsertStatus(wizard.scheduledTime)
         id == CampaignName(Cardinality(DOMAIN campaigns) + 1)
     IN  IF ok /\ status \in CampaignStatus /\ email_templates
         THEN /\ campaigns' = [c \in DOMAIN campaigns \cup {id} |->
                                 IF c = id
                                 THEN [NewCampaign(wizard.recipientCount)
                                         EXCEPT !.status = status]
                                 ELSE campaigns[c]]
              /\ wizard' = [wizard EXCEPT !.runs[k] =
                              [pc |-> "recipients", campaign_id |-> id]]
         ELSE /\ wizard' = [wizard EXCEPT !.runs[k].pc = "failed",
                                          !.creating = FALSE]
              /\ UNCHANGED campaigns
  /\ UNCHANGED <<contacts, rows, smtp, sends, marks, ninv, proc,
                 smtp_settings, email_templates, session, settingsPage, pure>>

\* what the server answers to a campaign of the wizard: it accepts every
\* message, or rejects every other one
WizardScripts(n) ==
  { [r \in 1..n |-> "ok"],
    [r \in 1..n |-> IF r % 2 = 1 THEN "rejected" ELSE "ok"] }

\* handleCreateCampaign of run k from the insert of the recipient rows on:
\* one row per contact of filteredContacts, which the foreign key on
\* contact_id rejects when one of them was deleted; with 'send now' the run
\* requests the dispatch, and it ends by leaving the wizard
CreateRecipients(k, ok) ==
  /\ k \in DOMAIN wizard.runs
  /\ wizard.runs[k].pc = "recipients"
  /\ LET n == wizard.recipientCount
         first == Len(smtp)
         new == (first + 1)..(first + n)
     IN  IF ok /\ (1..n) \subseteq contacts
         THEN /\ rows' = [r \in RowIds \cup new |->
                            IF r \in new
                            THEN NewRow(wizard.runs[k].campaign_id, r - first)
                            ELSE rows[r]]
              /\ \E script \in WizardScripts(n) : smtp' = smtp \o script
              /\ sends' = sends \o [r \in 1..n |-> 0]
              /\ marks' = marks \o [r \in 1..n |-> {}]
              /\ wizard' = [wizard EXCEPT
                              !.runs[k].pc = IF wizard.scheduledTime = "now"
                                             THEN "requested" ELSE "done",
                              !.creating = FALSE, !.mounted = FALSE]
         ELSE /\ wizard' = [wizard EXCEPT !.runs[k].pc = "failed",
                                          !.creating = FALSE]
              /\ UNCHANGED <<rows, smtp, sends, marks>>
  /\ UNCHANGED <<campaigns, contacts, ninv, proc, smtp_settings, email_templates,
                 session, settingsPage, pure>>

\* the request of run k reaches the edge function; the run has left the
\* wizard and does not wait for the answer
Dispatch(p, k) ==
  /\ k \in DOMAIN wizard.runs
  /\ wizard.runs[k].pc = "requested"
  /\ Request(p, JsonBody(wizard.runs[k].campaign_id, wizard.smtpPassword))
  /\ wizard' = [wizard EXCEPT !.runs[k].pc = "done"]
  /\ UNCHANGED <<campaigns, contacts, rows, smtp, sends, marks,
                 smtp_settings, email_templates, session, settingsPage, pure>>

\* the wizard on its review step, with the first n contacts selected;
\* canProceed let it leave step 3 only with a password typed in
Review(n, smtpPassword, scheduledTime) ==
  [recipientCount |-> n, smtpPassword |-> smtpPassword,
   scheduledTime |-> scheduledTime, creating |-> FALSE, mounted |-> TRUE,
   runs |-> <<>>]

\* the empty store with the template in place, and the wizard on its
\* review step
WizardOpen ==
  /\ campaigns = NoCampaigns
  /\ rows = <<>>
  /\ smtp = <<>>
  /\ sends = <<>>
  /\ marks = <<>>
  /\ ninv = 0
  /\ proc = [p \in Procs |-> Idle]
  /\ email_templates = TRUE
  /\ session = TRUE
  /\ \E n \in 1..MaxRows : \E scheduledTime \in {"now", "scheduled"} :
       /\ contacts = 1..n
       /\ wizard = Review(n, "hunter2", scheduledTime)
  /\ settingsPage = [s \in Pages |-> NoSave]
  /\ NoCall

\* the slot of the next invocation: the first one that is free
FreeSlot(p) ==
  /\ proc[p].pc \in {"idle", "done"}
  /\ \A q \in Procs : q < p => proc[q].pc \notin {"idle", "done"}

\* the wizard clicked up to n times, its runs, and the dispatches they
\* request on the slots ps
WizardNext(ps, n) ==
  \/ Len(wizard.runs) < n /\ ClickCreate
  \/ \E k \in 1..n : CheckDone(k)
  \/ \E k \in 1..n : \E ok \in BOOLEAN : CreateCampaign(k, ok)
  \/ \E k \in 1..n : \E ok \in BOOLEAN : CreateRecipients(k, ok)
  \/ \E k \in 1..n : \E p \in ps : FreeSlot(p) /\ Dispatch(p, k)

\* the steps of the invocations of the slots ps on a reliable store
HandlerNext(ps) ==
  \E p \in ps :
    \/ ReadCampaign(p, TRUE)
    \/ ReadSettings(p, TRUE)
    \/ FetchRecipients(p, TRUE)
    \/ MarkCompleted(p, TRUE)
    \/ MarkSending(p, TRUE)
    \/ Send(p)
    \/ MarkSent(p, TRUE)
    \/ MarkFailed(p, TRUE)
    \/ Close(p)
    \/ ReadCounts(p, TRUE)
    \/ WriteCounts(p, TRUE)
    \/ CountPending(p, TRUE)

\* the store after two runs of handleCreateCampaign created two campaigns
\* for the same n contacts, as a double click does, and all but the first m
\* contacts were deleted; the server answers to both campaigns by the same
\* script
Twins(n, m, script) ==
  /\ campaigns = [c \in {CampaignName(1), CampaignName(2)} |-> NewCampaign(n)]
  /\ contacts = 1..m
  /\ rows = [r \in 1..(2 * m) |->
               NewRow(CampaignName(((r - 1) \div m) + 1), ((r - 1) % m) + 1)]
  /\ smtp = script \o script
  /\ sends = [r \in 1..(2 * m) |-> 0]
  /\ marks = [r \in 1..(2 * m) |-> {}]
  /\ ninv = 0
  /\ proc = [p \in Procs |-> Idle]
  /\ wizard = Closed
  /\ settingsPage = [s \in Pages |-> NoSave]
  /\ NoCall

\* the settings page saving while each of two like campaigns is dispatched
\* once, with a password of its own: the first with none or with "hunter2",
\* the second with "secret"
StoreInit ==
  /\ smtp_settings = <<>>
  /\ email_templates = TRUE
  /\ session \in BOOLEAN
  /\ \E n \in 1..MaxRows : \E m \in 0..n : \E script \in WizardScripts(m) :
       Twins(n, m, script)

StoreNext ==
  \/ \E settings \in FormsOf(1) : \E ok \in BOOLEAN :
       /\ \/ ok /\ Len(smtp_settings) > 0
          \/ Len(smtp_settings) + InsertsPending < MaxSettingsRows
       /\ HandleSave(1, settings, ok)
  \/ \E ok \in BOOLEAN : SaveSettings(1, ok)
  \/ \E pw \in {"", "hunter2"} :
       proc[1].pc = "idle" /\ Invoke(1, JsonBody(CampaignName(1), pw))
  \/ proc[2].pc = "idle" /\ Invoke(2, JsonBody(CampaignName(2), "secret"))
  \/ HandlerNext(Procs)

SpecStore == StoreInit /\ [][StoreNext]_vars

\* the wizard clicked up to MaxRuns times on a configured account, and the
\* dispatches that its runs request, while contacts are added and deleted
\* and the template can be deleted
WizardInit ==
  /\ smtp_settings = <<Configured>>
  /\ WizardOpen

WizardSpecNext ==
  \/ WizardNext(Procs, MaxRuns)
  \/ \E k \in NewContacts : AddContact(k, TRUE)
  \/ \E k \in contacts : DeleteContact(k)
  \/ DeleteTemplate
  \/ HandlerNext(Procs)

SpecWizard == WizardInit /\ [][WizardSpecNext]_vars

\* concurrent invocations on a reliable store, with an operator
Init == \E n \in 1..MaxRows : Created(n)

Next ==
  \/ \E p \in Procs : \E pw \in Passwords :
       ninv < MaxInvocations /\ Invoke(p, Body(pw))
  \/ \E p \in Procs : ReadCampaign(p, TRUE)
  \/ \E p \in Procs : ReadSettings(p, TRUE)
  \/ \E p \in Procs : FetchRecipients(p, TRUE)
  \/ \E p \in Procs : MarkCompleted(p, TRUE)
  \/ \E p \in Procs : MarkSending(p, TRUE)
  \/ \E p \in Procs : Send(p)
  \/ \E p \in Procs : MarkSent(p, TRUE)
  \/ \E p \in Procs : MarkFailed(p, TRUE)
  \/ \E p \in Procs : Close(p)
  \/ \E p \in Procs : ReadCounts(p, TRUE)
  \/ \E p \in Procs : WriteCounts(p, TRUE)
  \/ \E p \in Procs : CountPending(p, TRUE)
  \/ OperatorPause
  \/ \E r \in RowIds : TrackerOpen(r)

Spec == Init /\ [][Next]_vars

\* one invocation after the other on a reliable store
SeqInit == \E n \in 1..MaxPending : Created(n)

SeqNext ==
  \/ ninv < MaxSeqInvocations /\ Invoke(1, Body("secret"))
  \/ ReadCampaign(1, TRUE)
  \/ ReadSettings(1, TRUE)
  \/ FetchRecipients(1, TRUE)
  \/ MarkCompleted(1, TRUE)
  \/ MarkSending(1, TRUE)
  \/ Send(1)
  \/ MarkSent(1, TRUE)
  \/ MarkFailed(1, TRUE)
  \/ Close(1)
  \/ ReadCounts(1, TRUE)
  \/ WriteCounts(1, TRUE)
  \/ CountPending(1, TRUE)

SpecSeq == SeqInit /\ [][SeqNext]_vars

\* the same, where the handler keeps running and dispatch is invoked again
\* and again, as long as the bound on the invocations allows
SpecSeqFair == SeqInit /\ [][SeqNext]_vars /\ WF_vars(SeqNext)

\* one invocation after the other on a store whose requests can fail
RetryInit == \E n \in 1..MaxRows : Created(n)

RetryNext ==
  \/ ninv < MaxInvocations /\ Invoke(1, Body("secret"))
  \/ \E ok \in BOOLEAN : ReadCampaign(1, ok)
  \/ \E ok \in BOOLEAN : ReadSettings(1, ok)
  \/ \E ok \in BOOLEAN : FetchRecipients(1, ok)
  \/ \E ok \in BOOLEAN : MarkCompleted(1, ok)
  \/ \E ok \in BOOLEAN : MarkSending(1, ok)
  \/ Send(1)
  \/ \E ok \in BOOLEAN : MarkSent(1, ok)
  \/ \E ok \in BOOLEAN : MarkFailed(1, ok)
  \/ Close(1)
  \/ \E ok \in BOOLEAN : ReadCounts(1, ok)
  \/ \E ok \in BOOLEAN : WriteCounts(1, ok)
  \/ \E ok \in BOOLEAN : CountPending(1, ok)

SpecRetry == RetryInit /\ [][RetryNext]_vars

\* the bodies of the requests: three texts that are not JSON, null, or an
\* object whose campaign_id is missing, the campaign's or another one and
\* whose password may be missing
RequestBodies ==
  {NotJson(""), NotJson("not json"), NotJson("{\"campaign_id\":\"c1\""), JsonNull}
  \cup {JsonBody(c, pw) : c \in {"", CampaignId, "c2"}, pw \in Passwords}

\* one invocation after the other on a reliable store, with any setup
SetupInit ==
  /\ \E n \in 1..MaxRows : CreatedRows(n)
  /\ smtp_settings \in {<<>>, <<Configured>>}
  /\ email_templates \in BOOLEAN
  /\ session \in BOOLEAN

SetupNext ==
  \/ \E body \in RequestBodies : ninv < MaxInvocations /\ Invoke(1, body)
  \/ ReadCampaign(1, TRUE)
  \/ ReadSettings(1, TRUE)
  \/ FetchRecipients(1, TRUE)
  \/ MarkCompleted(1, TRUE)
  \/ MarkSending(1, TRUE)
  \/ Send(1)
  \/ MarkSent(1, TRUE)
  \/ MarkFailed(1, TRUE)
  \/ Close(1)
  \/ ReadCounts(1, TRUE)
  \/ WriteCounts(1, TRUE)
  \/ CountPending(1, TRUE)

SpecSetup == SetupInit /\ [][SetupNext]_vars

\* no campaign is being dispatched
NoDispatch ==
  /\ campaigns = NoCampaigns
  /\ contacts = {}
  /\ rows = <<>>
  /\ smtp = <<>>
  /\ sends = <<>>
  /\ marks = <<>>
  /\ ninv = 0
  /\ proc = [p \in Procs |-> Idle]
  /\ smtp_settings = <<Configured>>
  /\ email_templates = TRUE
  /\ session = TRUE
  /\ wizard = Closed
  /\ settingsPage = [s \in Pages |-> NoSave]

\* the pieces a template is made of
TemplatePieces ==
  {"Hi ", "!", "{{first_name}}", "{{last_name}}", "{{email}}", "{{company}}",
   "{{full_name}}", "{{nickname}}", "ail}}"}

RECURSIVE Texts(_, _)
\* the strings made of at most n pieces of S
Texts(S, n) ==
  IF n = 0 THEN {""}
  ELSE LET shorter == Texts(S, n - 1) IN
       shorter \cup {t \o x : t \in shorter, x \in S}

Contacts ==
  [first_name : {NullField, "", "Ann", "$&", "{{email}}", "{{em"},
   last_name : {NullField, "Lee"},
   email : {"ann@example.com"},
   company : {NullField, "Acme", "{{first_name}}"}]

\* replacePlaceholders on every template and contact
RenderInit ==
  /\ NoDispatch
  /\ args \in [text : Texts(TemplatePieces, MaxTemplateLen), contact : Contacts]
  /\ result = <<>>

RenderNext == Render

SpecRender == RenderInit /\ [][RenderNext]_vars

RECURSIVE Repeat(_, _)
\* the string of n copies of c, by halves
Repeat(c, n) ==
  IF n = 0 THEN ""
  ELSE IF n = 1 THEN c
  ELSE Repeat(c, n \div 2) \o Repeat(c, n - n \div 2)

Subjects ==
  {"", "Hello", "FREE offer, act now!!", "How to unsubscribe",
   Repeat("x", SubjectLimit), Repeat("x", MaxSubjectLen)}

Bodies ==
  {"", "<p>Hello</p>", "<a>unsubscribe</a>", "<a>Unsubscribe</a>",
   "UNSUBSCRIBE", "You are a WINNER, click here",
   "<p>OFFRE LIMITÉE, URGENT</p>"}

RecipientCounts == {0, 1, SlowSendThreshold, MaxRecipientCount}

\* the check on every template, recipient count and password
CheckInit ==
  /\ NoDispatch
  /\ args \in [template : {<<>>} \cup {<<t>> : t \in [subject : Subjects,
                                                      html_content : Bodies]},
               recipientCount : RecipientCounts,
               smtpPassword : Passwords]
  /\ result = <<>>

CheckNext == Check

SpecCheck == CheckInit /\ [][CheckNext]_vars

TypeOK ==
  /\ \A c \in DOMAIN campaigns : campaigns[c].status \in CampaignStatus
  /\ \A r \in RowIds : rows[r].status \in RecipientStatus

\* ------------------------------------------------------------------ claims
Min(a, b) == IF a < b THEN a ELSE b

CeilDiv(a, b) == (a + b - 1) \div b

\* the recipients of the batch that the loop is through with
Processed(l) ==
  IF l.pc \in {"send", "markSent", "markFailed"} THEN l.i - 1
  ELSE IF l.pc \in {"close", "readCounts", "writeCounts", "count"} THEN Len(l.recipients)
  ELSE 0

\* C1: no recipient row is marked sent or failed by two invocations.
NoDoubleClaim == \A r \in RowIds : Cardinality(marks[r]) <= 1

\* C2: over non-overlapping invocations the SMTP client is asked to send to
\* each recipient row at most once, also when a store write fails.
AtMostOneSend == \A r \in RowIds : sends[r] <= 1

\* C3: with N <= 50 pending rows the first call answers sent + failed = N,
\* the second call answers remaining = 0, sent = 0, failed = 0 and changes
\* no recipient row.
IdempotentReinvocation ==
  (proc[1].pc = "done" /\ RowCount <= BatchLimit) =>
     /\ ninv = 1 => proc[1].response.sent + proc[1].response.failed = RowCount
     /\ ninv = 2 => /\ proc[1].response.remaining = 0
                    /\ proc[1].response.sent = 0
                    /\ proc[1].response.failed = 0
                    /\ \A r \in RowIds : 2 \notin marks[r]

\* C4: an invocation on a campaign that is already completed answers
\* {sent: 0, failed: 0, remaining: 0} and changes no recipient row.
TerminalStateGuard ==
  \A p \in Procs :
    (proc[p].pc = "done" /\ proc[p].campaign.status = "completed") =>
       /\ proc[p].response.sent = 0
       /\ proc[p].response.failed = 0
       /\ proc[p].response.remaining = 0
       /\ \A r \in RowIds : proc[p].inv \notin marks[r]

\* C5: no step of a dispatch invocation changes the campaign row of a
\* campaign whose status is completed or failed.
TerminalCampaignFrozen ==
  [][campaign.status \in {"completed", "failed"} => campaign' = campaign]_vars

\* C6: a recipient of the batch whose send succeeds ends as sent, one whose
\* send fails ends as failed with a non-empty error_message, and the loop
\* goes on to the recipients after a failed one.
PartialFailureIsolation ==
  \A p \in Procs : \A k \in 1..Processed(proc[p]) :
    LET r == proc[p].recipients[k] IN
      /\ smtp[r] = "ok" => rows[r].status = "sent"
      /\ smtp[r] # "ok" => rows[r].status = "failed" /\ rows[r].error_message # ""

\* C6 witness: recipient 3 of 5 was rejected, the loop is over, 1, 2, 4 and
\* 5 are sent.
IsolationWitness ==
  /\ proc[1].pc = "close"
  /\ Len(proc[1].recipients) = 5
  /\ smtp[3] # "ok"
  /\ rows[3].status = "failed" /\ rows[3].error_message # ""
  /\ \A r \in {1, 2, 4, 5} : smtp[r] = "ok" /\ rows[r].status = "sent"

\* C7: an invocation processes at most 50 rows; with P pending rows the k-th
\* sequential invocation processes min(50, P - 50(k-1)) rows and the first
\* response with remaining = 0 is that of invocation ceil(P/50).
Batching ==
  LET P == RowCount
      k == ninv
      resp == proc[1].response
  IN /\ Len(proc[1].recipients) <= BatchLimit
     /\ proc[1].pc = "done" =>
          IF k <= CeilDiv(P, BatchLimit)
          THEN /\ resp.sent + resp.failed = Min(BatchLimit, P - BatchLimit * (k - 1))
               /\ resp.remaining = P - Min(P, BatchLimit * k)
               /\ resp.remaining = 0 <=> k = CeilDiv(P, BatchLimit)
          ELSE resp.message = "No pending recipients" /\ resp.sent = 0

\* C7 witness: 120 pending rows, the third invocation processed the last 20.
BatchingWitness ==
  /\ RowCount = 120 /\ ninv = 3 /\ proc[1].pc = "done"
  /\ proc[1].response.sent + proc[1].response.failed = 20
  /\ proc[1].response.remaining = 0

\* C8: whenever the campaign is completed, sent_count + failed_count is
\* total_recipients.
CounterAdditivity ==
  campaign.status = "completed" =>
    campaign.sent_count + campaign.failed_count = campaign.total_recipients

\* C9: sent_count + failed_count never exceeds total_recipients.
CounterBound ==
  campaign.sent_count + campaign.failed_count <= campaign.total_recipients

\* C10: an invocation that found the campaign paused fetches no recipients,
\* sends nothing, marks no row and does not set the campaign to sending.
PauseGuard ==
  \A p \in Procs :
    proc[p].campaign.status = "paused" =>
       /\ proc[p].pc \in {"settings", "select", "done"}
       /\ proc[p].recipients = <<>>
       /\ \A r \in RowIds : proc[p].inv \notin marks[r]

\* C11: when an invocation answers a processed batch with remaining = 0 the
\* campaign is completed and completed_at is set; with remaining > 0 the
\* campaign is sending.
CompletionInSamePass ==
  (proc[1].pc = "done" /\ proc[1].response.remaining # Undefined) =>
     IF proc[1].response.remaining = 0
     THEN campaign.status = "completed" /\ campaign.completed_at # Null
     ELSE campaign.status = "sending"

\* C14: when two invocations have both processed a batch and written their
\* counters, sent_count and failed_count have grown by the sum of what the
\* two responses report.
AtomicCounterIncrement ==
  (ninv = 2 /\ \A p \in Procs : proc[p].pc = "done"
                                /\ proc[p].response.remaining # Undefined) =>
     /\ campaign.sent_count = proc[1].response.sent + proc[2].response.sent
     /\ campaign.failed_count = proc[1].response.failed + proc[2].response.failed

\* C15: dispatch writes the status of a recipient row only while that status
\* is pending.
OnlyPendingIsMarked ==
  [][\A r \in RowIds : marks'[r] # marks[r] => rows[r].status = "pending"]_vars

\* C12: an invocation with an empty password, without an SMTP settings row
\* or without a template answers with an error, leaves the campaign failed
\* and has marked no recipient row.
SetupErrors ==
  \A p \in Procs :
    (proc[p].pc = "done" /\ (proc[p].response.status = 400 \/ ~email_templates)) =>
       /\ proc[p].response.error # ""
       /\ campaign.status = "failed"
       /\ \A r \in RowIds : proc[p].inv \notin marks[r]

\* invocation p has created its SMTP client: it is in its batch, or it has
\* answered after its batch, as only that answer has the key remaining
ClientCreated(p) ==
  \/ proc[p].pc \in {"send", "markSent", "markFailed", "close", "readCounts",
                     "writeCounts", "count"}
  \/ proc[p].pc = "done" /\ proc[p].response.remaining # Undefined

\* C13: when the SMTP session cannot be opened, an invocation that has
\* created its SMTP client answers with an error, every recipient row stays
\* pending and the campaign stays sending.
SessionErrors ==
  (~session /\ email_templates) =>
     \A p \in Procs :
       ClientCreated(p) =>
         /\ \A r \in RowIds : rows[r].status = "pending"
         /\ proc[p].pc = "done" =>
               proc[p].response.error # "" /\ campaign.status = "sending"

MergeTokens == {"{{first_name}}", "{{last_name}}", "{{email}}", "{{company}}"}

\* the contact field a merge token stands for
FieldOf(token, contact) ==
  IF token = "{{first_name}}" THEN contact.first_name
  ELSE IF token = "{{last_name}}" THEN contact.last_name
  ELSE IF token = "{{email}}" THEN contact.email
  ELSE contact.company

RECURSIVE SubstitutedFrom(_, _, _)
\* one scan of the template from position k on: a merge token gives its
\* field as it is, everything else is copied
SubstitutedFrom(text, k, contact) ==
  IF k > Len(text) THEN ""
  ELSE IF \E token \in MergeTokens : MatchesAt(text, k, token)
       THEN LET token == CHOOSE t \in MergeTokens : MatchesAt(text, k, t) IN
            OrEmpty(FieldOf(token, contact))
            \o SubstitutedFrom(text, k + Len(token), contact)
  ELSE CharAt(text, k) \o SubstitutedFrom(text, k + 1, contact)

Substituted(text, contact) == SubstitutedFrom(text, 1, contact)

\* C16: replacePlaceholders returns the template with every occurrence of
\* {{first_name}}, {{last_name}}, {{email}} and {{company}} replaced by the
\* contact's field (the empty string for a null or empty field) and every
\* other token left as it is.
SubstitutesFields ==
  result # <<>> => result[1] = Substituted(args.text, args.contact)

\* C17: no {{full_name}} token is left in a rendered subject or body.
SubstitutesFullName ==
  result # <<>> => ~Includes(result[1], "{{full_name}}")

\* the issues of type ty in a list of issues
IssuesOfType(issues, ty) == {k \in 1..Len(issues) : issues[k].type = ty}

\* C18: the deliverability check reports exactly one error when the SMTP
\* password is empty and none when it is present, whatever the template
\* (also none selected) and the recipient count; every other issue is a
\* warning.
CheckErrors ==
  (result # <<>> /\ "template" \in DOMAIN args) =>
     LET issues == result[1].issues IN
       /\ Cardinality(IssuesOfType(issues, "error"))
            = IF args.smtpPassword = "" THEN 1 ELSE 0
       /\ Cardinality(IssuesOfType(issues, "warning"))
            = Len(issues) - Cardinality(IssuesOfType(issues, "error"))
       /\ result[1].ok = (args.smtpPassword # "")

\* the check has run without a password on the template "FREE offer, act
\* now!!" for more than 500 recipients: one error among several warnings
CheckErrorsWitness ==
  /\ result # <<>>
  /\ "template" \in DOMAIN args
  /\ args.smtpPassword = ""
  /\ args.template = <<[subject |-> "FREE offer, act now!!",
                        html_content |-> "<p>Hello</p>"]>>
  /\ args.recipientCount > SlowSendThreshold
  /\ Cardinality(IssuesOfType(result[1].issues, "error")) = 1
  /\ Cardinality(IssuesOfType(result[1].issues, "warning")) >= 2

UnsubscribeWarning == Warning("Consider adding an unsubscribe link for compliance")

\* C19: the missing-unsubscribe warning is reported exactly when the body of
\* the selected template does not contain "unsubscribe" in any letter case.
UnsubscribeRule ==
  (result # <<>> /\ "template" \in DOMAIN args /\ Len(args.template) > 0) =>
     ((\E k \in 1..Len(result[1].issues) : result[1].issues[k] = UnsubscribeWarning)
        <=> ~Includes(toLowerCase(args.template[1].html_content), "unsubscribe"))

\* the text columns of the stored rows
StringColumns == {"host", "username", "password", "from_email", "from_name"}

\* str holds a password that was typed in
HoldsSecret(str) == \E pw \in Secrets \ {""} : Includes(str, pw)

\* no text column of a stored row holds a password that was typed in
NoSecretStored ==
  /\ \A k \in 1..Len(smtp_settings) :
       \A f \in DOMAIN smtp_settings[k] \cap StringColumns :
         ~HoldsSecret(smtp_settings[k][f])
  /\ \A c \in DOMAIN campaigns : ~HoldsSecret(campaigns[c].status)
  /\ \A r \in RowIds : /\ ~HoldsSecret(rows[r].status)
                       /\ ~HoldsSecret(rows[r].error_message)

\* the recipient row of contact k in campaign c
RowOf(c, k) == CHOOSE r \in RowsOf(c) : rows[r].contact_id = k

\* what the store holds of campaign c, apart from its ids and its times
Stored(c) ==
  [status |-> campaigns[c].status,
   total_recipients |-> campaigns[c].total_recipients,
   sent_count |-> campaigns[c].sent_count,
   failed_count |-> campaigns[c].failed_count,
   rows |-> [k \in contacts |-> [status |-> rows[RowOf(c, k)].status,
                                 error_message |-> rows[RowOf(c, k)].error_message]]]

\* each of the two like campaigns has had one dispatch call, which has
\* returned, and both calls found the SMTP settings
TwinsDone ==
  /\ ninv = 2
  /\ \A p \in Procs :
       /\ proc[p].pc = "done"
       /\ proc[p].inv # 0
       /\ proc[p].response.error # "SMTP settings not configured"

\* the same operations with different passwords leave the same stored state
StoredIndependent ==
  TwinsDone => Stored(CampaignName(1)) = Stored(CampaignName(2))

EventualCompletion == <>[](PendingIds = {} /\ campaign.status = "completed")

\* a campaign of more than one batch has been completed
EventualCompletionWitness ==
  /\ RowCount > BatchLimit
  /\ PendingIds = {}
  /\ campaign.status = "completed"
  /\ proc[1].pc = "done"

\* the pcs of a run of handleCreateCampaign that has finished
Finished == {"blocked", "failed", "requested", "done"}

\* the campaigns row that run k inserted is in the store
CampaignExists(k) == wizard.runs[k].campaign_id \in DOMAIN campaigns

\* the recipient rows of the campaign of run k
RunRows(k) == RowsOf(wizard.runs[k].campaign_id)

\* the campaigns row of run k
RunCampaign(k) == campaigns[wizard.runs[k].campaign_id]

\* C22: when a run of handleCreateCampaign finishes, with or without an
\* error, either its campaign row and all its recipient rows exist,
\* total_recipients being their number, or neither its campaign nor any
\* recipient row of it exists.
AtomicCreation ==
  [][\A k \in DOMAIN wizard.runs :
       (wizard.runs[k].pc \notin Finished /\ wizard'.runs[k].pc \in Finished) =>
          \/ /\ CampaignExists(k)'
             /\ Cardinality(RunRows(k))' = RunCampaign(k)'.total_recipients
             /\ Cardinality(RunRows(k))' = wizard'.recipientCount
          \/ /\ ~CampaignExists(k)'
             /\ RunRows(k)' = {}]_vars

\* the edges of draft -> {scheduled | sending} -> {sending <-> paused} ->
\* {completed | failed}
LegalEdges ==
  {<<"draft", "scheduled">>, <<"draft", "sending">>, <<"scheduled", "sending">>,
   <<"sending", "paused">>, <<"paused", "sending">>,
   <<"sending", "completed">>, <<"sending", "failed">>,
   <<"paused", "completed">>, <<"paused", "failed">>}

\* C23: every change of the campaign's status follows a legal edge, and a
\* campaign that becomes completed has started_at set.
LegalTransitions ==
  [][/\ campaign'.status # campaign.status =>
          <<campaign.status, campaign'.status>> \in LegalEdges
     /\ campaign'.status = "completed" => campaign'.started_at # Null]_vars

\* C24: an invocation whose read or write of the counters failed after its
\* batch does not answer with success.
CounterErrorsReported ==
  [][\A p \in Procs :
       (proc[p].pc = "count" /\ proc[p].countsError /\ proc'[p].pc = "done")
          => ~proc'[p].response.success]_vars

\* C25: an invocation that created an SMTP client does not return before it
\* has called client.close(), also when sends of its batch threw.
SessionClosed ==
  [][\A p \in Procs : proc'[p].pc = "done" => ~proc[p].clientOpen]_vars

\* an invocation has returned after a batch in which a send threw
SessionClosedWitness ==
  /\ proc[1].pc = "done"
  /\ proc[1].response.status = 200
  /\ proc[1].response.failed >= 1
  /\ \E r \in RowIds : rows[r].status = "failed"

\* C26: once started_at is set, no step changes it.
StartedAtOnce ==
  [][campaign.started_at # Null => campaign'.started_at = campaign.started_at]_vars

\* C27: while no invocation is in progress, sent_count is the number of rows
\* with status sent and failed_count the number of rows with status failed.
CountersMatchRows ==
  (\A p \in Procs : proc[p].pc \in {"idle", "done"}) =>
     /\ campaign.sent_count = Cardinality({r \in RowIds : rows[r].status = "sent"})
     /\ campaign.failed_count = Cardinality({r \in RowIds : rows[r].status = "failed"})

\* C28: when the dispatch call that a run of the wizard makes for 'send now'
\* has returned with success, no row of its campaign is pending and the
\* campaign is completed. The run makes this one call and does not look at
\* its answer, so what the call leaves behind is final.
SendNowCompletes ==
  \A p \in Procs :
    (wizard.scheduledTime = "now" /\ proc[p].pc = "done"
       /\ proc[p].response.success) =>
         /\ PendingOf(proc[p].campaign_id) = {}
         /\ campaigns[proc[p].campaign_id].status = "completed"

\* C29: every status that the wizard or dispatch writes to a campaign row
\* is one that the CHECK constraint of campaigns.status accepts.
StatusWritesAccepted ==
  /\ \A c \in DOMAIN campaigns : campaigns[c].status \in CampaignStatus
  /\ \A k \in DOMAIN wizard.runs :
       wizard.runs[k].pc \in {"recipients", "failed", "requested", "done"} =>
         InsertStatus(wizard.scheduledTime) \in CampaignStatus

\* C30: substitution is single-pass and literal: a template that is one merge
\* token renders to the contact's field exactly as stored (the empty string
\* for a null field), also when the field holds a merge token or a
\* replacement pattern such as $&.
SinglePassLiteral ==
  (result # <<>> /\ "text" \in DOMAIN args /\ args.text \in MergeTokens) =>
     result[1] = OrEmpty(FieldOf(args.text, args.contact))


====
